---- MODULE Spec2Model ----
(***************************************************************************)
(* Slide-change detection and processing coordination of Professor Gemini. *)
(*                                                                         *)
(* The model follows the streaming configuration of the application        *)
(* component (App with explainSlideStream), the narration service          *)
(* (geminiService.ts) and the speech service (ttsService.ts).              *)
(*                                                                         *)
(* JavaScript runs each handler to its next await without interleaving,    *)
(* so every action below is one such run-to-completion segment: a timer    *)
(* callback up to `await explainSlideStream`, one delivery of the          *)
(* narration stream, the settlement of the stream together with the        *)
(* continuation of the callback that awaited it, a user gesture, ...       *)
(* React state setters are taken to commit at once.                        *)
(***************************************************************************)
EXTENDS Integers, Sequences, FiniteSets, TLC

----------------------------------------------------------------------------
(* Program constants *)

SLIDE_CHECK_INTERVAL == 100            \* period of the sampler, far below TimeStep:
                                       \* any number of ticks fits between clock steps
SIMILARITY_THRESHOLD_PERMILLE == 978   \* SIMILARITY_THRESHOLD = 0.978
MIN_PROCESSING_INTERVAL == 1000
TIMER_START_DELAY == 2000              \* setTimeout(..., 2000)
thumbWidth == 320
DEFAULT_CANVAS_WIDTH == 300            \* document.createElement('canvas')
DEFAULT_CANVAS_HEIGHT == 150

(* Bounds of the model *)

TimeStep == 1000      \* granularity of the modelled clock (ms)
MaxStarts == 2        \* handleStartSharing calls
MaxTx == 2            \* accepted slide changes (narration transactions)
MaxStartsLong == 3    \* the same two for the runs of SpecLong
MaxTxLong == 3
MaxStartsLanguage == 1    \* handleStartSharing calls in the runs of SpecLanguage

----------------------------------------------------------------------------
(* Values *)

Languages == {"english", "indonesian"}
NoError == "null"
NoId == 0
NoVideo == <<0, 0>>

\* Capture resolutions the display source can deliver: <<videoWidth, videoHeight>>.
VideoSizes == {<<1280, 720>>}

\* What the shared screen can show. A frame is the RGBA data of one tile of
\* pixels that repeats over the whole raster, so the averages taken over the
\* tile are the averages taken over the raster.
BlackFrame == <<0, 0, 0, 255>>
DarkFrame == <<3, 3, 3, 255>>
WhiteFrame == <<255, 255, 255, 255>>
Frames == {BlackFrame, DarkFrame, WhiteFrame}

\* Text is a sequence of characters. A narration stream delivers a prefix of
\* StreamChunks, one chunk at a time.
StreamChunks == << <<"*", "a">>, <<"*", "BACKTICK", "BACKTICK", "b", "BACKTICK", "BACKTICK", " ">> >>

Abs(x) == IF x < 0 THEN 0 - x ELSE x
Min(a, b) == IF a < b THEN a ELSE b
Max(a, b) == IF a > b THEN a ELSE b

----------------------------------------------------------------------------
(* calculateImageSimilarity *)

RECURSIVE SumDiff(_, _, _)
\* the loop `for (i = 0; i < data1.length; i += 4)`; i is 1-based here.
\* Returns 3 * totalDiff (the division by 3 is folded into the denominator).
SumDiff(data1, data2, i) ==
    IF i > Len(data1) THEN 0
    ELSE Abs(data1[i] - data2[i]) + Abs(data1[i + 1] - data2[i + 1])
         + Abs(data1[i + 2] - data2[i + 2]) + SumDiff(data1, data2, i + 4)

RECURSIVE SumDiffWithAlpha(_, _, _)
SumDiffWithAlpha(data1, data2, i) ==
    IF i > Len(data1) THEN 0
    ELSE Abs(data1[i] - data2[i]) + SumDiffWithAlpha(data1, data2, i + 1)

\* A detector that averages the difference over all four channels.
calculateImageSimilarityWithAlpha(canvas1, canvas2) ==
    IF canvas1.width # canvas2.width \/ canvas1.height # canvas2.height
    THEN [num |-> 0, den |-> 1]
    ELSE LET pixelCount == Len(canvas1.data) \div 4
             den == 4 * 255 * pixelCount
             num == den - SumDiffWithAlpha(canvas1.data, canvas2.data, 1)
         IN  [num |-> Max(0, Min(den, num)), den |-> den]

\* A detector without the comparison of widths and heights of line 23.
calculateImageSimilarityNoSizeCheck(canvas1, canvas2) ==
    LET pixelCount == Len(canvas1.data) \div 4
        den == 3 * 255 * pixelCount
        num == den - SumDiff(canvas1.data, canvas2.data, 1)
    IN  [num |-> Max(0, Min(den, num)), den |-> den]

\* A detector that returns the average difference itself, without the
\* `1 -` of line 50.
calculateImageSimilarityAsDistance(canvas1, canvas2) ==
    IF canvas1.width # canvas2.width \/ canvas1.height # canvas2.height
    THEN [num |-> 0, den |-> 1]
    ELSE LET pixelCount == Len(canvas1.data) \div 4
             den == 3 * 255 * pixelCount
             num == SumDiff(canvas1.data, canvas2.data, 1)
         IN  [num |-> Max(0, Min(den, num)), den |-> den]

\* The similarity as an exact fraction num/den.
calculateImageSimilarity(canvas1, canvas2) ==
    IF canvas1.width # canvas2.width \/ canvas1.height # canvas2.height
    THEN [num |-> 0, den |-> 1]
    ELSE LET pixelCount == Len(canvas1.data) \div 4
             den == 3 * 255 * pixelCount
             \* similarity = 1 - avgDiff / 255
             num == den - SumDiff(canvas1.data, canvas2.data, 1)
         IN  [num |-> Max(0, Min(den, num)), den |-> den]

\* similarity > SIMILARITY_THRESHOLD
AboveThreshold(similarity) ==
    similarity.num * 1000 > SIMILARITY_THRESHOLD_PERMILLE * similarity.den

----------------------------------------------------------------------------
(* cleanExplanationText *)

\* A character is a one-element string; the backtick, which a TLA+ string
\* cannot hold, is written BACKTICK.
BACKTICK == "BACKTICK"
IsSpace(c) == c \in {" ", "\n", "\t"}
IsLineTerminator(c) == c = "\n"

\* text[i .. i + Len(m) - 1] = m
MatchesAt(text, i, m) ==
    /\ i + Len(m) - 1 <= Len(text)
    /\ SubSeq(text, i, i + Len(m) - 1) = m

RECURSIVE FindClose(_, _, _)
\* (.*?)\1 : the first position j >= from where the marker m occurs again,
\* with no line terminator in between ('.' does not match one); 0 when the
\* lazy scan fails.
FindClose(text, from, m) ==
    IF from + Len(m) - 1 > Len(text) THEN 0
    ELSE IF MatchesAt(text, from, m) THEN from
    ELSE IF IsLineTerminator(text[from]) THEN 0
    ELSE FindClose(text, from + 1, m)

RECURSIVE ReplacePaired(_, _, _)
\* text.replace(/(m1|m2)(.*?)\1/g, '$2') scanning from position i; markers
\* is the alternation in the order the pattern states it.
ReplacePaired(text, i, markers) ==
    IF i > Len(text) THEN <<>>
    ELSE LET opening == SelectSeq(markers, LAMBDA m : MatchesAt(text, i, m))
             m == opening[1]
             j == FindClose(text, i + Len(m), m)
         IN  IF opening # <<>> /\ j # 0
             THEN SubSeq(text, i + Len(m), j - 1)
                  \o ReplacePaired(text, j + Len(m), markers)
             ELSE <<text[i]>> \o ReplacePaired(text, i + 1, markers)

RECURSIVE NextBacktick(_, _)
NextBacktick(text, from) ==
    IF from > Len(text) THEN 0
    ELSE IF text[from] = BACKTICK THEN from
    ELSE NextBacktick(text, from + 1)

RECURSIVE ReplaceCodeSpan(_, _)
\* text.replace(/BACKTICK([^BACKTICK]+)BACKTICK/g, '$1')
ReplaceCodeSpan(text, i) ==
    IF i > Len(text) THEN <<>>
    ELSE LET j == NextBacktick(text, i + 1)
         IN  IF text[i] = BACKTICK /\ j > i + 1
             THEN SubSeq(text, i + 1, j - 1) \o ReplaceCodeSpan(text, j + 1)
             ELSE <<text[i]>> \o ReplaceCodeSpan(text, i + 1)

RECURSIVE HashRunEnd(_, _)
\* last position of the run of '#' that starts at i
HashRunEnd(text, i) ==
    IF i + 1 <= Len(text) /\ text[i + 1] = "#" THEN HashRunEnd(text, i + 1) ELSE i

RECURSIVE RemoveHeading(_, _)
\* text.replace(/#+\s/g, '')
RemoveHeading(text, i) ==
    IF i > Len(text) THEN <<>>
    ELSE LET k == HashRunEnd(text, i)
         IN  IF text[i] = "#" /\ k + 1 <= Len(text) /\ IsSpace(text[k + 1])
             THEN RemoveHeading(text, k + 2)
             ELSE <<text[i]>> \o RemoveHeading(text, i + 1)

RECURSIVE TrimStart(_)
TrimStart(text) ==
    IF text # <<>> /\ IsSpace(Head(text)) THEN TrimStart(Tail(text)) ELSE text

RECURSIVE TrimEnd(_)
TrimEnd(text) ==
    IF text # <<>> /\ IsSpace(text[Len(text)])
    THEN TrimEnd(SubSeq(text, 1, Len(text) - 1)) ELSE text

\* String.prototype.trim
Trim(text) == TrimEnd(TrimStart(text))

cleanExplanationText(text) ==
    LET bold == ReplacePaired(text, 1, << <<"*", "*">>, <<"_", "_">> >>)
        italic == ReplacePaired(bold, 1, << <<"*">>, <<"_">> >>)
        code == ReplaceCodeSpan(italic, 1)
        heading == RemoveHeading(code, 1)
    IN  Trim(heading)

----------------------------------------------------------------------------
(* State *)

VARIABLES
    \* React state of App
    isSharing, isProcessing, isSpeaking, isMuted, language, error,
    explanations, streamingExplanationId,
    \* refs of App
    videoRef,               \* <<videoWidth, videoHeight>>, NoVideo without srcObject
    streamRef,              \* TRUE while streamRef.current holds the stream
    intervalRef,            \* index into timers, 0 for null
    sinceLastProcessed,     \* Date.now() - lastProcessedTimeRef.current
    processingLockRef,
    previousCanvas,         \* [width, height, data]
    \* the event loop
    timers,                 \* the setTimeout/setInterval pairs of handleStartSharing
    startCall,              \* the handleStartSharing call awaiting getDisplayMedia
    calls,                  \* tick invocations suspended at `await explainSlideStream`
    \* geminiService module state
    conversationHistory, currentSlideNumber,
    \* ttsService module state
    currentAudio,           \* index into speeches, 0 for null
    speeches,               \* the speak calls made so far
    \* environment
    screen,                 \* the frame the shared screen shows
    \* history variables
    accepted,               \* number of slide changes accepted so far
    starts,                 \* number of handleStartSharing calls so far
    sinceLastAccepted       \* time since the latest accepted slide change

(***************************************************************************)
(* Time.  The code reads the clock only to compute                         *)
(* now - lastProcessedTimeRef.current and to run the 2000 ms timeout, so   *)
(* the model keeps these differences instead of Date.now(): each grows by  *)
(* TimePasses and saturates where the code's comparison no longer changes. *)
(* lastProcessedTimeRef.current = 0 makes the difference the time since    *)
(* 1970, which is the saturated value.                                     *)
(***************************************************************************)

reactVars == <<isSharing, isProcessing, isSpeaking, isMuted, language, error,
               explanations, streamingExplanationId>>
refVars == <<videoRef, streamRef, intervalRef, sinceLastProcessed,
             processingLockRef, previousCanvas>>
loopVars == <<timers, startCall, calls>>
geminiVars == <<conversationHistory, currentSlideNumber>>
ttsVars == <<currentAudio, speeches>>
historyVars == <<accepted, starts, sinceLastAccepted>>
vars == <<reactVars, refVars, loopVars, geminiVars, ttsVars, screen, historyVars>>

NoCall == [pending |-> FALSE]
ClearedTimer == [state |-> "cleared"]
FinishedSpeech(n) == [phase |-> "done", text |-> <<>>, onEnd |-> n, cancelled |-> FALSE]

\* The values a render closes over: checkForSlideChangeAndExplain is rebuilt
\* by useCallback on [isProcessing, isSpeaking, isMuted, language], and
\* handleStartSharing keeps the one of the render that built it.
Closure ==
    [isProcessing |-> isProcessing, isSpeaking |-> isSpeaking,
     isMuted |-> isMuted, language |-> language]

Init ==
    /\ isSharing = FALSE
    /\ isProcessing = FALSE
    /\ isSpeaking = FALSE
    /\ isMuted = FALSE
    /\ language = "english"
    /\ error = NoError
    /\ explanations = <<>>
    /\ streamingExplanationId = NoId
    /\ videoRef = NoVideo
    /\ streamRef = FALSE
    /\ intervalRef = 0
    /\ sinceLastProcessed = MIN_PROCESSING_INTERVAL
    /\ processingLockRef = FALSE
    /\ previousCanvas = [width |-> DEFAULT_CANVAS_WIDTH,
                         height |-> DEFAULT_CANVAS_HEIGHT,
                         data |-> <<0, 0, 0, 0>>]
    /\ timers = <<>>
    /\ startCall = NoCall
    /\ calls = {}
    /\ conversationHistory = <<>>
    /\ currentSlideNumber = 1
    /\ currentAudio = 0
    /\ speeches = <<>>
    /\ screen \in Frames
    /\ accepted = 0
    /\ starts = 0
    /\ sinceLastAccepted = MIN_PROCESSING_INTERVAL

----------------------------------------------------------------------------
(* ttsService *)

\* cancel(): pause the current audio element and forget it. A paused
\* element raises neither `ended` nor `error`. Every other speak call that
\* has not settled is left as it is; the history field `cancelled` records
\* that a cancel() returned after the call was issued.
cancel(sp, audio) ==
    [s \in DOMAIN sp |->
        IF s = audio /\ sp[s].phase = "playing"
        THEN [phase |-> "paused", text |-> <<>>, onEnd |-> sp[s].onEnd,
              cancelled |-> FALSE]
        ELSE IF sp[s].phase \in {"synthesizing", "playing"}
        THEN [sp[s] EXCEPT !.cancelled = TRUE]
        ELSE sp[s]]

\* speak(text, onEnd) up to `await ai.models.generateContent`.
speak(sp, audio, text) ==
    Append(cancel(sp, audio),
           [phase |-> "synthesizing", text |-> text, onEnd |-> 0, cancelled |-> FALSE])

----------------------------------------------------------------------------
(* Session control *)

\* ctx.clearRect(0, 0, width, height): every sample becomes transparent black.
clearRect(canvas) ==
    [canvas EXCEPT !.data = [i \in DOMAIN canvas.data |-> 0]]

\* handleStartSharing up to `await navigator.mediaDevices.getDisplayMedia`.
handleStartSharing ==
    /\ ~isSharing
    /\ ~startCall.pending
    /\ error' = NoError
    /\ explanations' = <<>>
    /\ streamingExplanationId' = NoId
    /\ sinceLastProcessed' = MIN_PROCESSING_INTERVAL   \* lastProcessedTimeRef.current = 0
    /\ processingLockRef' = FALSE
    \* records: the list as the click found it, kept for the properties
    /\ startCall' = [pending |-> TRUE, closure |-> Closure, records |-> explanations]
    /\ starts' = starts + 1
    /\ UNCHANGED <<isSharing, isProcessing, isSpeaking, isMuted, language,
                   videoRef, streamRef, intervalRef, previousCanvas, timers, calls,
                   geminiVars, ttsVars, screen, accepted, sinceLastAccepted>>

\* getDisplayMedia and video.play() resolve: the rest of the try block.
StartSharingResolved ==
    /\ startCall.pending
    /\ \E size \in VideoSizes : videoRef' = size
    /\ streamRef' = TRUE
    /\ isSharing' = TRUE
    /\ timers' = Append(timers, [state |-> "timeout",
                                 closure |-> startCall.closure,
                                 remaining |-> TIMER_START_DELAY])
    /\ startCall' = NoCall
    /\ UNCHANGED <<isProcessing, isSpeaking, isMuted, language, error, explanations,
                   streamingExplanationId, intervalRef, sinceLastProcessed,
                   processingLockRef, previousCanvas, calls,
                   geminiVars, ttsVars, screen, historyVars>>

\* getDisplayMedia rejects (permission denied, no source): the catch block.
StartSharingRejected ==
    /\ startCall.pending
    /\ error' = "Error: start"
    /\ startCall' = NoCall
    /\ UNCHANGED <<isSharing, isProcessing, isSpeaking, isMuted, language, explanations,
                   streamingExplanationId, refVars, timers, calls,
                   geminiVars, ttsVars, screen, historyVars>>

\* getDisplayMedia resolves, srcObject is set, then video.play() rejects:
\* the catch block runs with the stream attached and its tracks live.
StartSharingPlayRejected ==
    /\ startCall.pending
    /\ \E size \in VideoSizes : videoRef' = size
    /\ error' = "Error: start"
    /\ startCall' = NoCall
    /\ UNCHANGED <<isSharing, isProcessing, isSpeaking, isMuted, language, explanations,
                   streamingExplanationId, streamRef, intervalRef, sinceLastProcessed,
                   processingLockRef, previousCanvas, timers, calls,
                   geminiVars, ttsVars, screen, historyVars>>

\* The callback of setTimeout(..., 2000): intervalRef.current = setInterval(...).
TimeoutFires(t) ==
    /\ timers[t].state = "timeout"
    /\ timers[t].remaining = 0
    /\ timers' = [timers EXCEPT ![t].state = "interval"]
    /\ intervalRef' = t
    /\ UNCHANGED <<reactVars, videoRef, streamRef, sinceLastProcessed,
                   processingLockRef, previousCanvas, startCall, calls,
                   geminiVars, ttsVars, screen, historyVars>>

\* handleStopSharing: the Stop button, or the `ended` event of the video track.
handleStopSharing ==
    /\ isSharing
    /\ timers' = IF intervalRef # 0
                 THEN [timers EXCEPT ![intervalRef] = ClearedTimer]
                 ELSE timers
    /\ intervalRef' = 0
    /\ streamRef' = FALSE
    /\ videoRef' = NoVideo
    /\ speeches' = cancel(speeches, currentAudio)
    /\ currentAudio' = 0
    /\ isSharing' = FALSE
    /\ isProcessing' = FALSE
    /\ isSpeaking' = FALSE
    /\ streamingExplanationId' = NoId
    /\ sinceLastProcessed' = MIN_PROCESSING_INTERVAL   \* lastProcessedTimeRef.current = 0
    /\ processingLockRef' = FALSE
    /\ previousCanvas' = clearRect(previousCanvas)
    /\ UNCHANGED <<isMuted, language, error, explanations, startCall, calls,
                   geminiVars, screen, accepted, starts, sinceLastAccepted>>

----------------------------------------------------------------------------
(* Presentation state store *)

\* A callback that appends the chunk to every record, whatever its id.
handleChunkIgnoresId(exps, explanationId, chunk) ==
    [i \in DOMAIN exps |-> [exps[i] EXCEPT !.text = @ \o chunk]]

\* handleChunk: setExplanations(prev => prev.map(... text: exp.text + chunk ...))
handleChunk(exps, explanationId, chunk) ==
    [i \in DOMAIN exps |->
        IF exps[i].id = explanationId
        THEN [exps[i] EXCEPT !.text = @ \o chunk]
        ELSE exps[i]]

\* A seal that leaves every record as the stream left it.
sealExplanationLeavesOpen(exps, explanationId) == exps

\* setExplanations(prev => prev.map(... isStreaming: false, isComplete: true ...))
sealExplanation(exps, explanationId) ==
    [i \in DOMAIN exps |->
        IF exps[i].id = explanationId
        THEN [exps[i] EXCEPT !.isStreaming = FALSE, !.isComplete = TRUE]
        ELSE exps[i]]

----------------------------------------------------------------------------
(* The sampler tick: checkForSlideChangeAndExplain *)

\* The first `if`: closure values for isProcessing and isSpeaking, live
\* values for the refs. A video element without srcObject has videoHeight 0.
PreconditionsHold(closure) ==
    ~(processingLockRef \/ closure.isProcessing \/ closure.isSpeaking
        \/ videoRef = NoVideo \/ videoRef[2] = 0)

\* The second `if`: now - lastProcessedTimeRef.current < MIN_PROCESSING_INTERVAL
IntervalElapsed ==
    ~(sinceLastProcessed < MIN_PROCESSING_INTERVAL)

\* currentCanvas after drawImage(video, 0, 0, thumbWidth, thumbHeight); the
\* height setter of a canvas truncates to an integer.
currentCanvas ==
    [width |-> thumbWidth,
     height |-> (videoRef[2] * thumbWidth) \div videoRef[1],
     data |-> screen]

\* The change gate: TRUE when the frame is skipped as unchanged.
GateSkips ==
    /\ previousCanvas.width > 0
    /\ previousCanvas.height > 0
    /\ AboveThreshold(calculateImageSimilarity(currentCanvas, previousCanvas))

\* A catch block that reports the failure and forgets the lock.
catchBlockKeepsLock ==
    /\ error' = "Failed to process slide"
    /\ isProcessing' = FALSE
    /\ streamingExplanationId' = NoId
    /\ processingLockRef' = TRUE

\* The catch block of the handler.
catchBlock ==
    /\ error' = "Failed to process slide"
    /\ isProcessing' = FALSE
    /\ streamingExplanationId' = NoId
    /\ processingLockRef' = FALSE

\* Return at one of the two precondition checks: nothing is written.
TickRejected(t) ==
    /\ timers[t].state = "interval"
    /\ ~PreconditionsHold(timers[t].closure) \/ ~IntervalElapsed
    /\ UNCHANGED <<reactVars, refVars, loopVars, geminiVars, ttsVars, screen,
                   historyVars>>

\* `if (!currentContext) return;` after the lock was taken.
TickNoThumbContext(t) ==
    /\ timers[t].state = "interval"
    /\ PreconditionsHold(timers[t].closure) /\ IntervalElapsed
    /\ processingLockRef' = TRUE
    /\ UNCHANGED <<reactVars, videoRef, streamRef, intervalRef, sinceLastProcessed,
                   previousCanvas, loopVars, geminiVars, ttsVars, screen,
                   historyVars>>

\* drawImage or getImageData throws before the gate decides.
TickThrowsBeforeGate(t) ==
    /\ timers[t].state = "interval"
    /\ PreconditionsHold(timers[t].closure) /\ IntervalElapsed
    /\ catchBlock
    /\ UNCHANGED <<isSharing, isSpeaking, isMuted, language, explanations,
                   videoRef, streamRef, intervalRef, sinceLastProcessed,
                   previousCanvas, loopVars, geminiVars, ttsVars, screen,
                   historyVars>>

\* similarity > SIMILARITY_THRESHOLD: release and return.
TickUnchanged(t) ==
    /\ timers[t].state = "interval"
    /\ PreconditionsHold(timers[t].closure) /\ IntervalElapsed
    /\ GateSkips
    /\ processingLockRef' = FALSE
    /\ UNCHANGED <<reactVars, videoRef, streamRef, intervalRef, sinceLastProcessed,
                   previousCanvas, loopVars, geminiVars, ttsVars, screen,
                   historyVars>>

\* An acceptance that writes the baseline and leaves the timestamp as it is.
AcceptChangeKeepsTimestamp(t) ==
    /\ timers[t].state = "interval"
    /\ PreconditionsHold(timers[t].closure) /\ IntervalElapsed
    /\ ~GateSkips
    /\ previousCanvas' = currentCanvas
    /\ sinceLastProcessed' = sinceLastProcessed
    /\ accepted' = accepted + 1
    /\ sinceLastAccepted' = 0
    /\ UNCHANGED starts

\* An acceptance that takes the timestamp and leaves the baseline as it is.
AcceptChangeKeepsBaseline(t) ==
    /\ timers[t].state = "interval"
    /\ PreconditionsHold(timers[t].closure) /\ IntervalElapsed
    /\ ~GateSkips
    /\ previousCanvas' = previousCanvas
    /\ sinceLastProcessed' = 0
    /\ accepted' = accepted + 1
    /\ sinceLastAccepted' = 0
    /\ UNCHANGED starts

\* The frame is accepted: the baseline and the timestamp are written.
AcceptChange(t) ==
    /\ timers[t].state = "interval"
    /\ PreconditionsHold(timers[t].closure) /\ IntervalElapsed
    /\ ~GateSkips
    /\ previousCanvas' = currentCanvas
    /\ sinceLastProcessed' = 0             \* lastProcessedTimeRef.current = now
    /\ accepted' = accepted + 1
    /\ sinceLastAccepted' = 0
    /\ UNCHANGED starts

\* `if (!fullContext) return;` after setIsProcessing(true), setError(null).
TickNoFullContext(t) ==
    /\ AcceptChange(t)
    /\ processingLockRef' = TRUE
    /\ isProcessing' = TRUE
    /\ error' = NoError
    /\ UNCHANGED <<isSharing, isSpeaking, isMuted, language, explanations,
                   streamingExplanationId, videoRef, streamRef, intervalRef,
                   loopVars, geminiVars, ttsVars, screen>>

\* drawImage, toDataURL or crypto.randomUUID throws after the frame was accepted.
TickThrowsAfterAccept(t) ==
    /\ AcceptChange(t)
    /\ catchBlock
    /\ UNCHANGED <<isSharing, isSpeaking, isMuted, language, explanations,
                   videoRef, streamRef, intervalRef,
                   loopVars, geminiVars, ttsVars, screen>>

\* The record is created and explainSlideStream is called; the invocation
\* suspends at the await with the lock held.
TickStartsNarration(t) ==
    /\ AcceptChange(t)
    /\ LET explanationId == accepted + 1     \* crypto.randomUUID()
           closure == timers[t].closure
       IN  /\ explanations' = Append(explanations,
                   [id |-> explanationId, text |-> <<>>,
                    language |-> closure.language,
                    isStreaming |-> TRUE, isComplete |-> FALSE])
           /\ streamingExplanationId' = explanationId
           /\ calls' = calls \cup
                   {[id |-> explanationId,
                     session |-> starts,
                     language |-> closure.language,
                     isMuted |-> closure.isMuted,
                     slideNum |-> currentSlideNumber,
                     context |-> conversationHistory,
                     fullText |-> <<>>,
                     chunks |-> 0]}
    /\ currentSlideNumber' = currentSlideNumber + 1
    /\ processingLockRef' = TRUE
    /\ isProcessing' = FALSE
    /\ error' = NoError
    /\ UNCHANGED <<isSharing, isSpeaking, isMuted, language,
                   videoRef, streamRef, intervalRef, timers, startCall,
                   conversationHistory, ttsVars, screen>>

\* The handler while the canvas API works.
SamplerTick(t) ==
    \/ TickRejected(t)
    \/ TickUnchanged(t)
    \/ TickStartsNarration(t)

\* The handler when a 2D context is refused or a canvas call throws.
SamplerTickFails(t) ==
    \/ TickNoThumbContext(t)
    \/ TickThrowsBeforeGate(t)
    \/ TickNoFullContext(t)
    \/ TickThrowsAfterAccept(t)

checkForSlideChangeAndExplain(t) ==
    SamplerTick(t) \/ SamplerTickFails(t)

----------------------------------------------------------------------------
(* explainSlideStream and the continuation of the handler that awaits it *)

\* The message the catch block of explainSlideStream builds for an Error
\* object, as one opaque character per language.
errorMessage(lang) ==
    IF lang = "english" THEN <<"An error occurred">> ELSE <<"Terjadi kesalahan">>

\* A history that takes every returned text, blank or not.
addToHistoryAlways(history, slideNum, fullText) ==
    Append(history, [slideNumber |-> slideNum, explanation |-> fullText])

\* addToHistory(slideNum, fullText) under `if (fullText.trim())`
addToHistory(history, slideNum, fullText) ==
    IF Trim(fullText) # <<>>
    THEN Append(history, [slideNumber |-> slideNum, explanation |-> fullText])
    ELSE history

\* response.text of a response without text, and the text explainSlide
\* puts in its place, as one opaque character.
NoResponse == <<"undefined">>
NoResponseText == <<"No response received from the AI.">>

\* The history after a run of explainSlide, the non-streaming request:
\* the catch block adds nothing, the fallback text is not added.
explainSlide(history, slideNum, responseText, thrown) ==
    LET fullText == IF responseText = NoResponse THEN NoResponseText ELSE responseText
    IN  IF ~thrown /\ fullText # NoResponseText
        THEN addToHistory(history, slideNum, fullText)
        ELSE history

\* What explainSlideStream returns for request c when the run ends now:
\* `return fullText` after the loop, `return errorMessage` from the catch.
explainSlideStreamReturn(c, thrown) ==
    IF thrown THEN errorMessage(c.language) ELSE c.fullText

\* The arguments onChunk was called with over the run of request c, in
\* order: one per iteration of the loop, then the message if the catch ran.
onChunkArguments(c, thrown) ==
    SubSeq(StreamChunks, 1, c.chunks) \o
        (IF thrown THEN <<errorMessage(c.language)>> ELSE <<>>)

\* A continuation that takes the returned error text for a failure and
\* leaves without speaking it and without reaching the release.
resumeAfterAwaitKeepsLock(c, exps, fullExplanationText) ==
    /\ explanations' = sealExplanation(exps, c.id)
    /\ streamingExplanationId' = NoId
    /\ UNCHANGED <<isSpeaking, speeches, currentAudio>>
    /\ processingLockRef' = TRUE
    /\ calls' = calls \ {c}

\* The handler after `await explainSlideStream(...)`: seal the record, speak
\* unless the closure says muted, release the lock. exps is the record list
\* as the stream left it.
resumeAfterAwait(c, exps, fullExplanationText) ==
    /\ explanations' = sealExplanation(exps, c.id)
    /\ streamingExplanationId' = NoId
    /\ IF ~c.isMuted
       THEN /\ isSpeaking' = TRUE
            /\ speeches' = speak(speeches, currentAudio,
                                 cleanExplanationText(fullExplanationText))
            /\ currentAudio' = 0
       ELSE UNCHANGED <<isSpeaking, speeches, currentAudio>>
    /\ processingLockRef' = FALSE
    /\ calls' = calls \ {c}

\* One iteration of `for await (const chunk of response)`.
StreamDelivers(c) ==
    /\ c \in calls
    /\ c.chunks < Len(StreamChunks)
    /\ LET chunk == StreamChunks[c.chunks + 1]
       IN  /\ calls' = (calls \ {c}) \cup
                       {[c EXCEPT !.fullText = @ \o chunk, !.chunks = @ + 1]}
           /\ explanations' = handleChunk(explanations, c.id, chunk)
    /\ UNCHANGED <<isSharing, isProcessing, isSpeaking, isMuted, language, error,
                   streamingExplanationId, refVars, timers, startCall,
                   geminiVars, ttsVars, screen, historyVars>>

\* The stream ends: explainSlideStream returns fullText.
StreamCompletes(c) ==
    /\ c \in calls
    /\ conversationHistory' = addToHistory(conversationHistory, c.slideNum, c.fullText)
    /\ resumeAfterAwait(c, explanations, explainSlideStreamReturn(c, FALSE))
    /\ UNCHANGED <<isSharing, isProcessing, isMuted, language, error,
                   videoRef, streamRef, intervalRef, sinceLastProcessed,
                   previousCanvas, timers, startCall, currentSlideNumber,
                   screen, historyVars>>

\* generateContentStream rejects or the iteration throws: the catch block
\* of explainSlideStream delivers the message as a chunk and returns it.
StreamThrows(c) ==
    /\ c \in calls
    /\ LET message == errorMessage(c.language)
       IN  resumeAfterAwait(c, handleChunk(explanations, c.id, message),
                            explainSlideStreamReturn(c, TRUE))
    /\ UNCHANGED <<isSharing, isProcessing, isMuted, language, error,
                   videoRef, streamRef, intervalRef, sinceLastProcessed,
                   previousCanvas, timers, startCall, geminiVars,
                   screen, historyVars>>

----------------------------------------------------------------------------
(* ttsService: the asynchronous part of speak *)

\* onEnd of the coordinator, invoked n times in one run of the event loop:
\* setIsSpeaking(false). The count kept per speak call stops at 2.
onEnd(s, n) ==
    /\ speeches' = [speeches EXCEPT ![s] = FinishedSpeech(Min(@.onEnd + n, 2))]
    /\ isSpeaking' = FALSE

\* The synthesis request returns audio and audio.play() resolves.
SynthesisReturnsAudio(s) ==
    /\ speeches[s].phase = "synthesizing"
    /\ currentAudio' = s
    /\ speeches' = [speeches EXCEPT ![s].phase = "playing"]
    /\ UNCHANGED <<reactVars, refVars, loopVars, geminiVars, screen, historyVars>>

\* The synthesis request returns audio and audio.play() rejects: the catch
\* block calls onEnd. When play() is refused (NotAllowedError) that is all;
\* when the media cannot be loaded the element fires `error` first, whose
\* handler calls onEnd as well, and then rejects the play() promise.
SynthesisPlayRejected(s) ==
    /\ speeches[s].phase = "synthesizing"
    /\ currentAudio' = s
    /\ \E n \in {1, 2} : onEnd(s, n)
    /\ UNCHANGED <<isSharing, isProcessing, isMuted, language, error, explanations,
                   streamingExplanationId, refVars, loopVars, geminiVars, screen,
                   historyVars>>

\* The synthesis request rejects or returns no audio data.
SynthesisFails(s) ==
    /\ speeches[s].phase = "synthesizing"
    /\ onEnd(s, 1)
    /\ UNCHANGED <<isSharing, isProcessing, isMuted, language, error, explanations,
                   streamingExplanationId, refVars, loopVars, geminiVars, currentAudio,
                   screen, historyVars>>

\* audio.onended, or audio.onerror during playback.
AudioStops(s) ==
    /\ speeches[s].phase = "playing"
    /\ onEnd(s, 1)
    /\ UNCHANGED <<isSharing, isProcessing, isMuted, language, error, explanations,
                   streamingExplanationId, refVars, loopVars, geminiVars, currentAudio,
                   screen, historyVars>>

----------------------------------------------------------------------------
(* The other controls and the environment *)

handleToggleMute ==
    /\ isMuted' = ~isMuted
    /\ IF ~isMuted
       THEN /\ speeches' = cancel(speeches, currentAudio)
            /\ currentAudio' = 0
            /\ isSpeaking' = FALSE
       ELSE UNCHANGED <<speeches, currentAudio, isSpeaking>>
    /\ UNCHANGED <<isSharing, isProcessing, language, error, explanations,
                   streamingExplanationId, refVars, loopVars, geminiVars, screen,
                   historyVars>>

handleToggleLanguage ==
    /\ language' = IF language = "english" THEN "indonesian" ELSE "english"
    /\ UNCHANGED <<isSharing, isProcessing, isSpeaking, isMuted, error, explanations,
                   streamingExplanationId, refVars, loopVars, geminiVars, ttsVars,
                   screen, historyVars>>

\* The presenter moves to another slide.
SlideChanges ==
    /\ screen' \in Frames \ {screen}
    /\ UNCHANGED <<reactVars, refVars, loopVars, geminiVars, ttsVars, historyVars>>

\* TimeStep milliseconds pass.
TimePasses ==
    /\ sinceLastProcessed' = Min(sinceLastProcessed + TimeStep, MIN_PROCESSING_INTERVAL)
    /\ sinceLastAccepted' = Min(sinceLastAccepted + TimeStep, MIN_PROCESSING_INTERVAL)
    /\ timers' = [t \in DOMAIN timers |->
                    IF timers[t].state = "timeout"
                    THEN [timers[t] EXCEPT !.remaining = Max(@ - TimeStep, 0)]
                    ELSE timers[t]]
    /\ UNCHANGED <<reactVars, videoRef, streamRef, intervalRef, processingLockRef,
                   previousCanvas, startCall, calls, geminiVars, ttsVars, screen,
                   accepted, starts>>

----------------------------------------------------------------------------

(***************************************************************************)
(* Specifications.  Each one lets the program run in an environment that   *)
(* exercises one part of it: the state space of all inputs at once is out  *)
(* of reach of exhaustive search.                                          *)
(***************************************************************************)

Session(maxStarts) ==
    \/ handleStartSharing /\ starts < maxStarts
    \/ StartSharingResolved
    \/ handleStopSharing
    \/ \E t \in DOMAIN timers : TimeoutFires(t)

Narration ==
    \/ \E c \in calls : StreamDelivers(c)
    \/ \E c \in calls : StreamCompletes(c)
    \/ \E c \in calls : StreamThrows(c)

Speech ==
    \/ \E s \in DOMAIN speeches : SynthesisReturnsAudio(s)
    \/ \E s \in DOMAIN speeches : SynthesisPlayRejected(s)
    \/ \E s \in DOMAIN speeches : SynthesisFails(s)
    \/ \E s \in DOMAIN speeches : AudioStops(s)

\* The coordinator with both collaborators and a canvas API that may fail;
\* the user starts and stops sessions and leaves the other controls alone.
Next ==
    \/ Session(MaxStarts)
    \/ \E t \in DOMAIN timers : checkForSlideChangeAndExplain(t) /\ accepted' <= MaxTx
    \/ Narration
    \/ Speech
    \/ SlideChanges
    \/ TimePasses

Spec == Init /\ [][Next]_vars

\* Both collaborators out of service: every narration request and every
\* synthesis request fails; starting the capture may fail too.
Outage(maxStarts, maxTx) ==
    \/ Session(maxStarts)
    \/ StartSharingRejected
    \/ StartSharingPlayRejected
    \/ \E t \in DOMAIN timers : checkForSlideChangeAndExplain(t) /\ accepted' <= maxTx
    \/ \E c \in calls : StreamThrows(c)
    \/ \E s \in DOMAIN speeches : SynthesisFails(s)
    \/ SlideChanges
    \/ TimePasses

NextOutage == Outage(MaxStarts, MaxTx)

SpecOutage == Init /\ [][NextOutage]_vars

\* The same environment in longer runs.
NextLong == Outage(MaxStartsLong, MaxTxLong)

SpecLong == Init /\ [][NextLong]_vars

\* The user switches the language; the narration requests fail, at once or
\* in mid-stream, and the speech service does not answer.
NextLanguage ==
    \/ Session(MaxStartsLanguage)
    \/ \E t \in DOMAIN timers : checkForSlideChangeAndExplain(t) /\ accepted' <= MaxTx
    \/ \E c \in calls : StreamDelivers(c)
    \/ \E c \in calls : StreamThrows(c)
    \/ handleToggleLanguage
    \/ SlideChanges
    \/ TimePasses

SpecLanguage == Init /\ [][NextLanguage]_vars

\* The user mutes and unmutes while sessions run; the narration requests
\* succeed and the audio plays to its end.
NextMute ==
    \/ Session(MaxStarts)
    \/ \E t \in DOMAIN timers : checkForSlideChangeAndExplain(t) /\ accepted' <= MaxTx
    \/ \E c \in calls : StreamCompletes(c)
    \/ \E s \in DOMAIN speeches : SynthesisReturnsAudio(s)
    \/ \E s \in DOMAIN speeches : AudioStops(s)
    \/ handleToggleMute
    \/ SlideChanges
    \/ TimePasses

SpecMute == Init /\ [][NextMute]_vars

\* The narration streams alone: chunks arrive, streams end or fail, sessions
\* stop and start under them; nothing is played.
NextStream ==
    \/ Session(MaxStarts)
    \/ \E t \in DOMAIN timers : SamplerTick(t) /\ accepted' <= MaxTx
    \/ Narration
    \/ SlideChanges
    \/ TimePasses

SpecStream == Init /\ [][NextStream]_vars

----------------------------------------------------------------------------
(* Properties *)

\* A tick that would pass both precondition checks of the handler.
TickWouldAcquire(t) ==
    /\ timers[t].state = "interval"
    /\ PreconditionsHold(timers[t].closure)
    /\ IntervalElapsed

\* The untouched baseline: nothing was drawn on previousCanvas since it was
\* created or last cleared.
BaselineIsBlank == \A i \in DOMAIN previousCanvas.data : previousCanvas.data[i] = 0

\* The text the narration service is specified to produce on failure.
LocalizedErrorText(lang) ==
    IF lang = "english" THEN <<"An error occurred">> ELSE <<"Terjadi kesalahan">>

\* C1: within one capture session at most one narration call is in flight:
\* two calls started in the same session are never pending together.
C1_OneInFlightPerSession ==
    \A c1, c2 \in calls : c1.session = c2.session => c1 = c2

\* C2: whatever the sequence of starts, stops, ticks and completions, at
\* most one narration transaction is in flight.
C2_AtMostOneInFlight ==
    Cardinality(calls) <= 1

\* C3: an invocation of the tick handler that took the lock and settles
\* (does not suspend at the narration call) leaves the lock free.
C3_SettledTickReleasesLock ==
    [][(/\ ~processingLockRef
        /\ \E t \in DOMAIN timers : checkForSlideChangeAndExplain(t)
        /\ calls' = calls)
       => ~processingLockRef']_vars

\* C4: when a step of the handler throws after the lock was taken, the
\* handler returns with the lock free and the error state non-null.
C4_ThrowReleasesAndReports ==
    [][(\E t \in DOMAIN timers : TickThrowsBeforeGate(t) \/ TickThrowsAfterAccept(t))
       => (~processingLockRef' /\ error' # NoError)]_vars

\* C4 witness: the catch block has run and the lock is free.
C4_Witness ==
    /\ error = "Failed to process slide"
    /\ ~processingLockRef
    /\ accepted > 0

C6_FailedRecordIsErrorText ==
    [][\A c \in calls : StreamThrows(c) =>
          \A i \in DOMAIN explanations' :
             explanations'[i].id = c.id =>
                /\ explanations'[i].text = LocalizedErrorText(c.language)
                /\ explanations'[i].isComplete
                /\ ~explanations'[i].isStreaming]_vars

\* C7: a slide change is accepted only when at least
\* MIN_PROCESSING_INTERVAL has passed since the previous accepted change,
\* also across stops and starts.
C7_MinimumInterval ==
    [][accepted' # accepted => sinceLastAccepted >= MIN_PROCESSING_INTERVAL]_vars

\* C8: while nothing has been accepted since the baseline was created or
\* cleared, a tick that passes the preconditions is not skipped as unchanged,
\* whatever the screen shows.
C8_FirstFrameAccepted ==
    \A t \in DOMAIN timers :
        (TickWouldAcquire(t) /\ BaselineIsBlank) => ~GateSkips

\* C9: no tick passes the preconditions while speech is in flight
\* (isSpeaking) or a narration call is pending.
C9_IdleWhenAcquiring ==
    \A t \in DOMAIN timers :
        TickWouldAcquire(t) => (~isSpeaking /\ calls = {})

\* C10: the lock is held whenever a speech request is being synthesized or
\* played.
C10_LockHeldWhileSpeaking ==
    \A s \in DOMAIN speeches :
        speeches[s].phase \in {"synthesizing", "playing"} => processingLockRef

\* C11: every speak call has its onEnd invoked: once a call has settled
\* (its playback ended or was paused by cancel(), its synthesis or its
\* playback failed), nothing further happens to it, so onEnd has run by then.
C11_OnEndInvoked ==
    \A s \in DOMAIN speeches :
        speeches[s].phase \in {"done", "paused"} => speeches[s].onEnd >= 1

\* C12: onEnd is never invoked more than once for one speak call.
C12_OnEndAtMostOnce ==
    \A s \in DOMAIN speeches : speeches[s].onEnd <= 1

\* C13: at most one playback is audible and it belongs to the most recent
\* speak call.
C13_LastCallWins ==
    /\ Cardinality({s \in DOMAIN speeches : speeches[s].phase = "playing"}) <= 1
    /\ \A s \in DOMAIN speeches :
          speeches[s].phase = "playing" => s = Len(speeches)

\* C14: once cancel() has returned, no audio of a speak call issued before
\* it is playing.
C14_CancelSilences ==
    \A s \in DOMAIN speeches :
        speeches[s].cancelled => speeches[s].phase # "playing"

\* C15: muting while speech plays cancels it and clears isSpeaking, and
\* no speak call is made while the muted flag is true.
C15_MuteSuppressesSpeech ==
    [][/\ (~isMuted /\ isMuted') =>
            /\ ~isSpeaking'
            /\ currentAudio' = 0
            /\ \A s \in DOMAIN speeches :
                  (s = currentAudio /\ speeches[s].phase = "playing")
                      => speeches'[s].phase = "paused"
       /\ Len(speeches') > Len(speeches) => ~isMuted]_vars

\* C16: while no session is running and none is being started, no sampling
\* interval is live (so no tick can be delivered), and at no time is more
\* than one sampling interval live.
C16_StopCancelsSampling ==
    /\ (~isSharing /\ ~startCall.pending) =>
           \A t \in DOMAIN timers : timers[t].state # "interval"
    /\ Cardinality({t \in DOMAIN timers : timers[t].state = "interval"}) <= 1

\* C17: when a narration request whose session has been stopped completes,
\* no speak call is made, isSpeaking is not set and the record list is left
\* as it was.
C17_LateCompletionIsDropped ==
    [][\A c \in calls :
          (calls' = calls \ {c} /\ (~isSharing \/ c.session # starts)) =>
              /\ Len(speeches') = Len(speeches)
              /\ isSpeaking' => isSpeaking
              /\ explanations' = explanations]_vars

\* C18: when starting the capture fails, an error is set, isSharing stays
\* false, no timer is scheduled, no stream is left attached to the video
\* element or held in streamRef, and the record list is the one the start
\* click found.
C18_FailedStartChangesNothing ==
    [][(startCall.pending /\ ~startCall'.pending /\ ~isSharing') =>
          /\ error' # NoError
          /\ timers' = timers
          /\ videoRef' = NoVideo
          /\ ~streamRef'
          /\ explanations' = startCall.records]_vars

\* C19: every narration request, and the record made for it, carries the
\* language selected when the request starts; a toggle changes no request
\* and no record made before it.
C19_LanguageOfNextRequest ==
    [][/\ \A c \in calls' :
             (\A d \in calls : d.id # c.id) => c.language = language
       /\ Len(explanations') > Len(explanations) =>
             explanations'[Len(explanations')].language = language
       /\ language' # language =>
             /\ calls' = calls
             /\ explanations' = explanations]_vars

\* C20: a step that accepts a slide change starts exactly one narration
\* request and appends exactly one record, and no other step starts a
\* request or appends a record; when a request completes, exactly one speak
\* call is made with its (cleaned) text if the narrator is unmuted and none
\* if it is muted, and no other step makes a speak call.
C20_OneNarrationPerChange ==
    [][/\ IF accepted' # accepted
          THEN /\ Cardinality({c \in calls' : \A d \in calls : d.id # c.id}) = 1
               /\ Len(explanations') = Len(explanations) + 1
          ELSE /\ \A c \in calls' : \E d \in calls : d.id = c.id
               /\ Len(explanations') <= Len(explanations)
       /\ IF \E c \in calls : calls' = calls \ {c}
          THEN LET c == CHOOSE c \in calls : calls' = calls \ {c}
               IN  IF isMuted
                   THEN Len(speeches') = Len(speeches)
                   ELSE /\ Len(speeches') = Len(speeches) + 1
                        /\ speeches'[Len(speeches')].text \in
                              {cleanExplanationText(c.fullText),
                               cleanExplanationText(errorMessage(c.language))}
          ELSE Len(speeches') = Len(speeches)]_vars

RECURSIVE Concatenation(_)
Concatenation(chunks) ==
    IF chunks = <<>> THEN <<>> ELSE Head(chunks) \o Concatenation(Tail(chunks))

\* C21: however the run of a narration request ends, the text it returns is
\* the concatenation, in order, of the chunks its callback was given.
C21_ReturnIsConcatenation ==
    \A c \in calls : \A thrown \in BOOLEAN :
        explainSlideStreamReturn(c, thrown)
            = Concatenation(onChunkArguments(c, thrown))

\* The rasters the program holds while a source is attached: the thumbnail
\* of the frame on screen and the stored baseline.
Rasters == IF videoRef = NoVideo THEN {previousCanvas} ELSE {currentCanvas, previousCanvas}

HasPixels(canvas) == canvas.width > 0 /\ canvas.height > 0

IsOne(similarity) == similarity.den > 0 /\ similarity.num = similarity.den
IsZero(similarity) == similarity.den > 0 /\ similarity.num = 0

\* C22: two rasters with the same dimensions and the same pixel values have
\* similarity exactly 1.
C22_IdenticalBuffersGiveOne ==
    \A canvas1, canvas2 \in Rasters :
        (/\ HasPixels(canvas1)
         /\ canvas1.width = canvas2.width
         /\ canvas1.height = canvas2.height
         /\ canvas1.data = canvas2.data)
            => IsOne(calculateImageSimilarity(canvas1, canvas2))

\* The frame on screen is the accepted baseline: two distinct rasters that
\* are equal in size and pixels.
C22_Witness ==
    /\ videoRef # NoVideo
    /\ accepted > 0
    /\ HasPixels(previousCanvas)
    /\ previousCanvas = currentCanvas

SizesDiffer(canvas1, canvas2) ==
    canvas1.width # canvas2.width \/ canvas1.height # canvas2.height

\* C23: two rasters of different width or height have similarity 0, and
\* the change gate does not skip a frame whose thumbnail differs in size
\* from the baseline.
C23_SizeMismatchGivesZero ==
    /\ \A canvas1, canvas2 \in Rasters :
          SizesDiffer(canvas1, canvas2)
              => IsZero(calculateImageSimilarity(canvas1, canvas2))
    /\ (videoRef # NoVideo /\ SizesDiffer(currentCanvas, previousCanvas))
          => ~GateSkips

\* A tick is about to sample a frame whose thumbnail is not of the size of
\* the baseline (the canvas as created, 300 x 150).
C23_Witness ==
    /\ videoRef # NoVideo
    /\ SizesDiffer(currentCanvas, previousCanvas)
    /\ HasPixels(previousCanvas)
    /\ \E t \in DOMAIN timers : TickWouldAcquire(t)

\* The texts the program holds: what the streams have produced so far,
\* what the records show and what was handed to speak.
Texts ==
    {c.fullText : c \in calls}
        \cup {explanations[i].text : i \in DOMAIN explanations}
        \cup {speeches[s].text : s \in DOMAIN speeches}

\* C24: cleaning a text that was cleaned already changes nothing.
C24_CleanupIsIdempotent ==
    \A text \in Texts :
        cleanExplanationText(cleanExplanationText(text)) = cleanExplanationText(text)

\* One of the preconditions of a tick fails: the lock is held, a narration
\* or a speech is in flight, no video source is attached or its height is
\* 0, or the last accepted change is less than the minimum interval ago.
PreconditionFails ==
    \/ processingLockRef
    \/ isProcessing
    \/ isSpeaking
    \/ calls # {}
    \/ videoRef = NoVideo
    \/ videoRef[2] = 0
    \/ sinceLastAccepted < MIN_PROCESSING_INTERVAL

\* C25: a tick delivered while a precondition fails changes nothing: the
\* lock, the timestamp, the baseline, the records, the error and the flags
\* are as before, and no request or speak call is made.
C25_FailedPreconditionChangesNothing ==
    [][(PreconditionFails /\ \E t \in DOMAIN timers : checkForSlideChangeAndExplain(t))
          => UNCHANGED <<processingLockRef, sinceLastProcessed, previousCanvas,
                         explanations, streamingExplanationId, error,
                         isProcessing, isSpeaking, calls, speeches>>]_vars

\* C26: a tick that compares the frame with the baseline and finds it
\* similar above the threshold leaves the baseline, the timestamp, the
\* records and the flags as they were, returns with the lock free and makes
\* no request and no speak call; and the baseline changes only in a step
\* that accepts a change.
C26_UnchangedFrameKeepsBaseline ==
    [][/\ (\E t \in DOMAIN timers : TickWouldAcquire(t) /\ GateSkips /\ SamplerTick(t))
            => /\ UNCHANGED <<previousCanvas, sinceLastProcessed, explanations,
                              streamingExplanationId, error, isProcessing,
                              isSpeaking, calls, speeches, accepted>>
               /\ ~processingLockRef'
       /\ previousCanvas' # previousCanvas => accepted' # accepted]_vars

C28_SimilarFrameNeverLocks ==
    [][(/\ ~BaselineIsBlank
        /\ \E t \in DOMAIN timers :
              TickWouldAcquire(t) /\ GateSkips /\ checkForSlideChangeAndExplain(t))
          => /\ ~processingLockRef'
             /\ calls' = calls
             /\ accepted' = accepted]_vars

\* C29: the lock is released only by the completion of the latest
\* transaction of the running session, and a step that starts or stops a
\* session leaves the lock, the timestamp and the baseline as they were.
C29_OnlyOwnerWrites ==
    [][/\ (processingLockRef /\ ~processingLockRef') =>
             \E c \in calls :
                 /\ calls' = calls \ {c}
                 /\ c.id = accepted
                 /\ c.session = starts
                 /\ isSharing
       /\ (isSharing' # isSharing \/ starts' # starts) =>
             UNCHANGED <<processingLockRef, sinceLastProcessed, previousCanvas>>]_vars

\* C30: the record of a request in flight shows the chunks delivered so
\* far for that request, concatenated in order, and a step that delivers a
\* chunk for one request changes no record of another identifier and adds
\* or removes none.
C30_RecordIsChunksSoFar ==
    [][/\ \A c \in calls' : \A i \in DOMAIN explanations' :
             explanations'[i].id = c.id =>
                 explanations'[i].text
                     = Concatenation(SubSeq(StreamChunks, 1, c.chunks))
       /\ \A c \in calls :
             (c \notin calls' /\ \E d \in calls' : d.id = c.id) =>
                 /\ Len(explanations') = Len(explanations)
                 /\ \A i \in DOMAIN explanations :
                       explanations[i].id # c.id => explanations'[i] = explanations[i]]_vars

\* Two records are on screen and the request of one has had all its chunks
\* delivered while its record is still streaming.
C30_Witness ==
    /\ Len(explanations) >= 2
    /\ \E c \in calls : \E i \in DOMAIN explanations :
          /\ c.chunks = Len(StreamChunks)
          /\ explanations[i].id = c.id
          /\ explanations[i].isStreaming
          /\ explanations[i].text = c.fullText
          /\ \E j \in DOMAIN explanations : explanations[j].text # c.fullText

\* C31: a record is created empty, streaming and not complete; the step in
\* which its narration call terminates seals it (not streaming, complete)
\* and clears the streaming indicator; and a record that is still streaming
\* always has its call in flight, so none is left in progress by a call
\* that has terminated.
C31_RecordIsSealed ==
    [][/\ Len(explanations') > Len(explanations) =>
             LET new == explanations'[Len(explanations')]
             IN  /\ Len(explanations') = Len(explanations) + 1
                 /\ new.text = <<>>
                 /\ new.isStreaming
                 /\ ~new.isComplete
       /\ \A c \in calls :
             calls' = calls \ {c} =>
                 /\ streamingExplanationId' = NoId
                 /\ \A i \in DOMAIN explanations' :
                       explanations'[i].id = c.id =>
                           ~explanations'[i].isStreaming /\ explanations'[i].isComplete
       /\ \A i \in DOMAIN explanations' :
             explanations'[i].isStreaming =>
                 \E c \in calls' : c.id = explanations'[i].id]_vars

\* A narration call has terminated and its record is on screen, sealed,
\* with the text of the stream.
C31_Witness ==
    /\ calls = {}
    /\ streamingExplanationId = NoId
    /\ \E i \in DOMAIN explanations :
          /\ explanations[i].isComplete
          /\ ~explanations[i].isStreaming
          /\ explanations[i].text # <<>>

\* C32: in a step that does not start a session the record list keeps
\* every record in its place with its identifier, identifiers are pairwise
\* distinct, and a record that changes is the last one and was streaming.
C32_RecordsAppendOnly ==
    [][starts' = starts =>
          /\ Len(explanations') >= Len(explanations)
          /\ \A i \in DOMAIN explanations :
                /\ explanations'[i].id = explanations[i].id
                /\ explanations'[i] # explanations[i] =>
                      (i = Len(explanations) /\ explanations[i].isStreaming)
          /\ \A i, j \in DOMAIN explanations' :
                explanations'[i].id = explanations'[j].id => i = j]_vars

\* C33: the conversation history lists its entries in increasing order of
\* slide number.
C33_HistoryInSlideOrder ==
    \A i, j \in DOMAIN conversationHistory :
        i < j => conversationHistory[i].slideNumber < conversationHistory[j].slideNumber

\* The alpha values a raster is given when the independence is tested.
AlphaValues == {0, 128, 255}

\* The raster with the alpha sample of every pixel set to alpha.
WithAlpha(canvas, alpha) ==
    [canvas EXCEPT !.data = [i \in DOMAIN canvas.data |->
                                IF i % 4 = 0 THEN alpha ELSE canvas.data[i]]]

RECURSIVE ChannelDiffs(_, _, _)
\* Sum over the pixels 1..p of |dR| + |dG| + |dB|, pixel p at data[4p-3..4p].
ChannelDiffs(data1, data2, p) ==
    IF p = 0 THEN 0
    ELSE Abs(data1[4 * p - 3] - data2[4 * p - 3])
         + Abs(data1[4 * p - 2] - data2[4 * p - 2])
         + Abs(data1[4 * p - 1] - data2[4 * p - 1])
         + ChannelDiffs(data1, data2, p - 1)

C35_RecordAndSpeechAreCleaned ==
    [][\A c \in calls :
          calls' = calls \ {c} =>
              LET cleaned == {cleanExplanationText(explainSlideStreamReturn(c, thrown)) :
                                 thrown \in BOOLEAN}
              IN  /\ \A i \in DOMAIN explanations' :
                        explanations'[i].id = c.id => explanations'[i].text \in cleaned
                  /\ Len(speeches') > Len(speeches) =>
                        speeches'[Len(speeches')].text \in cleaned]_vars

ErrorTexts == {errorMessage(lang) : lang \in Languages} \cup {NoResponseText}

\* An entry of the history or of a request's context that could not come
\* from a successful, non-blank narration.
IsFailureEntry(entry) ==
    \/ Trim(entry.explanation) = <<>>
    \/ \E i \in DOMAIN entry.explanation : <<entry.explanation[i]>> \in ErrorTexts

\* C36: the history grows only in the step in which a narration call
\* returns its own non-blank text without having failed, by that text; no
\* entry of the history, and no entry of the context a request was sent
\* with, is blank or holds an error message; and the non-streaming request
\* adds nothing for a failure, a blank text or a missing response text.
C36_HistoryHoldsSuccessesOnly ==
    [][/\ Len(conversationHistory') > Len(conversationHistory) =>
             \E c \in calls :
                 /\ calls' = calls \ {c}
                 /\ Trim(c.fullText) # <<>>
                 /\ conversationHistory'
                       = Append(conversationHistory,
                                [slideNumber |-> c.slideNum, explanation |-> c.fullText])
                 /\ \A i \in DOMAIN explanations' :
                       explanations'[i].id = c.id => explanations'[i].text = c.fullText
       /\ \A i \in DOMAIN conversationHistory' : ~IsFailureEntry(conversationHistory'[i])
       /\ \A c \in calls' : \A i \in DOMAIN c.context : ~IsFailureEntry(c.context[i])
       /\ \A text \in Texts \cup {NoResponse, <<" ">>} : \A thrown \in BOOLEAN :
             LET after == explainSlide(conversationHistory, currentSlideNumber, text, thrown)
             IN  IF thrown \/ text = NoResponse \/ Trim(text) = <<>>
                 THEN after = conversationHistory
                 ELSE after = Append(conversationHistory,
                                     [slideNumber |-> currentSlideNumber,
                                      explanation |-> text])]_vars

\* One narration has failed (its record shows the error message), another
\* has succeeded and is in the history.
C36_Witness ==
    /\ conversationHistory # <<>>
    /\ \E i \in DOMAIN explanations :
          /\ explanations[i].isComplete
          /\ \E k \in DOMAIN explanations[i].text :
                <<explanations[i].text[k]>> \in ErrorTexts

\* C37: the first narration request of a session (the one made while the
\* record list, emptied by the start, is still empty) is made for slide 1
\* with an empty conversation context.
C37_SessionStartsFresh ==
    [][\A c \in calls' :
          ((\A d \in calls : d.id # c.id) /\ explanations = <<>>) =>
              (c.slideNum = 1 /\ c.context = <<>>)]_vars

\* C38: isSpeaking is true whenever the audio of a speak call is playing.
C38_SpeakingFlagCoversPlayback ==
    \A s \in DOMAIN speeches : speeches[s].phase = "playing" => isSpeaking

\* Every narration call and every speak call has settled.
AllSettled ==
    /\ calls = {}
    /\ \A s \in DOMAIN speeches : speeches[s].phase \in {"done", "paused"}

\* C39: in a running session whose sampling interval exists, once every
\* narration and speech call has settled the sampler is not shut out: some
\* tick passes the first precondition check, so that a changed slide is
\* taken up as soon as the minimum interval has elapsed. (While nothing is
\* pending, nothing but a stop or a start changes the lock or the values
\* the callback closed over, so a state that fails this keeps failing it.)
C39_SamplerNeverShutOut ==
    (isSharing /\ intervalRef # 0 /\ AllSettled) =>
        \E t \in DOMAIN timers :
            timers[t].state = "interval" /\ PreconditionsHold(timers[t].closure)

====
